---- MODULE Spec2Model ----
(***************************************************************************)
(* Image Translator browser extension: the adaptive recognition-and-       *)
(* overlay pipeline.  Two entry paths share one page:                      *)
(*   - the selection path  (selection.js: processSelectedRegion, which     *)
(*     calls ocr.js: ocrImage and utils.js: translateText), and            *)
(*   - the scan path       (scanner.js: scanImages / processImage).        *)
(* The page runs on one JavaScript event loop: every action below is one   *)
(* run-to-completion segment of a handler, from an event (a click, a       *)
(* collaborator's answer) to the next await or return.                     *)
(***************************************************************************)
EXTENDS Integers, Sequences, FiniteSets, TLC

\* ------------------------------------------------------------------------
\* Bounds of the model
\* ------------------------------------------------------------------------

\* Longest paragraph / line list of a recognition result.
MaxBlocks == 2

\* Hide timeouts (setTimeout of showSuccess / showError) pending at once.
MaxHideTimeouts == 1

\* Activations of processSelectedRegion in progress at once.
MaxSelRuns == 2

\* Selection-box elements attached to the page at once.
MaxBoxes == 2

\* selection.js, handleMouseUp: `rect.width < 20 || rect.height < 20`
MinSelectionSize == 20

\* Images of the page.
NumImages == 2

\* Longest text of the quick detection pass, in characters.
MaxTextLen == 3

\* ------------------------------------------------------------------------
\* Program constants
\* ------------------------------------------------------------------------

\* ocr.js, ocrImage: `result.confidence < 40`
ConfidenceThreshold == 40

\* scanner.js, scanImages: `img.width >= 80 && img.height >= 40`
MinImageWidth == 80
MinImageHeight == 40

\* scanner.js, processImage: `b.text.trim().length >= 2`
MinBlockTextLength == 2

\* selection.js, processSelectedRegion: `text.length < 2`
MinSelectionTextLength == 2

\* ocr.js, detectLanguageFromText: chineseRegex, U+4E00..U+9FFF
HanFirst == 19968
HanLast == 40959
\* japaneseRegex, hiragana U+3040..U+309F and katakana U+30A0..U+30FF
HiraganaFirst == 12352
HiraganaLast == 12447
KatakanaFirst == 12448
KatakanaLast == 12543
\* koreanRegex, hangul syllables U+AC00..U+D7AF and jamo U+1100..U+11FF
HangulFirst == 44032
HangulLast == 55215
JamoFirst == 4352
JamoLast == 4607

\* contentScript.js, the options of #it-lang-select
Lang == {"auto", "chi_sim", "chi_tra", "jpn", "jpn_vert", "kor", "eng"}

\* The codes the recognizer has language data for.
RecognizerCodes == {"chi_sim", "chi_tra", "jpn", "jpn_vert", "kor", "eng"}

\* ------------------------------------------------------------------------
\* Text: a string is a sequence of UTF-16 code units
\* ------------------------------------------------------------------------

\* String.prototype.trim: WhiteSpace and LineTerminator code units.
IsWhiteSpace(c) ==
  \/ c \in {9, 10, 11, 12, 13, 32, 160, 5760, 8232, 8233, 8239, 8287, 12288, 65279}
  \/ (c >= 8192 /\ c <= 8202)

RECURSIVE TrimStart(_)
TrimStart(s) ==
  IF s = <<>> THEN <<>>
  ELSE IF IsWhiteSpace(Head(s)) THEN TrimStart(Tail(s))
  ELSE s

RECURSIVE TrimEnd(_)
TrimEnd(s) ==
  IF s = <<>> THEN <<>>
  ELSE IF IsWhiteSpace(s[Len(s)]) THEN TrimEnd(SubSeq(s, 1, Len(s) - 1))
  ELSE s

Trim(s) == TrimEnd(TrimStart(s))

\* text.match(regex) || []).length for a character-class regex with flag g
MatchCount(s, InClass(_)) ==
  Cardinality({i \in 1..Len(s) : InClass(s[i])})

chineseRegex(c) == c >= HanFirst /\ c <= HanLast

japaneseRegex(c) ==
  \/ (c >= HiraganaFirst /\ c <= HiraganaLast)
  \/ (c >= KatakanaFirst /\ c <= KatakanaLast)

koreanRegex(c) ==
  \/ (c >= HangulFirst /\ c <= HangulLast)
  \/ (c >= JamoFirst /\ c <= JamoLast)

\* ------------------------------------------------------------------------
\* ocr.js: language detection
\* ------------------------------------------------------------------------

\* Mutant: the ratio 1.2 itself counts as vertical (>= for >).
isLikelyVerticalTextInclusive(width, height) == 10 * height >= 12 * width

\* height > width * 1.2, on integer pixel sizes
isLikelyVerticalText(width, height) == 10 * height > 12 * width

\* Mutant: hangul is looked for before kana.
detectLanguageKoreanFirst(text) ==
  LET chineseCount == MatchCount(text, chineseRegex)
      japaneseCount == MatchCount(text, japaneseRegex)
      koreanCount == MatchCount(text, koreanRegex)
  IN  IF koreanCount > chineseCount THEN "kor"
      ELSE IF japaneseCount > 0 THEN "jpn"
      ELSE IF chineseCount > 0 THEN "chi_sim"
      ELSE "eng"

\* Mutant: as many hangul as Han characters are read as Korean (>= for >).
detectLanguageKoreanOnTie(text) ==
  LET chineseCount == MatchCount(text, chineseRegex)
      japaneseCount == MatchCount(text, japaneseRegex)
      koreanCount == MatchCount(text, koreanRegex)
  IN  IF japaneseCount > 0 THEN "jpn"
      ELSE IF koreanCount >= chineseCount THEN "kor"
      ELSE IF chineseCount > 0 THEN "chi_sim"
      ELSE "eng"

detectLanguageFromText(text) ==
  LET chineseCount == MatchCount(text, chineseRegex)
      japaneseCount == MatchCount(text, japaneseRegex)
      koreanCount == MatchCount(text, koreanRegex)
  IN  IF japaneseCount > 0 THEN "jpn"
      ELSE IF koreanCount > chineseCount THEN "kor"
      ELSE IF chineseCount > 0 THEN "chi_sim"
      ELSE "eng"

\* Mutant: the setting is returned whatever it is, `auto` included.
determineOcrLanguageUnresolved(setting, width, height) == setting

\* reads the global ocrLanguage, passed here as `setting`
determineOcrLanguage(setting, width, height) ==
  IF setting # "auto" THEN setting
  ELSE IF isLikelyVerticalText(width, height) THEN "jpn_vert"
  ELSE "chi_sim"

\* Mutant: the case of a jpn primary is missing.
alternateLangOneWay(primaryLang) ==
  IF primaryLang = "jpn_vert" THEN "jpn"
  ELSE IF primaryLang = "chi_sim" THEN "jpn"
  ELSE "chi_sim"

\* ocrImage: the alternate language of the low-confidence retry
alternateLang(primaryLang) ==
  IF primaryLang = "jpn_vert" THEN "jpn"
  ELSE IF primaryLang = "jpn" THEN "jpn_vert"
  ELSE IF primaryLang = "chi_sim" THEN "jpn"
  ELSE "chi_sim"

\* Mutant: the threshold itself retries (<= for <).
NeedsRetryInclusive(setting, confidence) ==
  setting = "auto" /\ confidence <= ConfidenceThreshold

\* Mutant: the retry does not look at the setting.
NeedsRetryAnyMode(setting, confidence) == confidence < ConfidenceThreshold

\* ocrImage: `ocrLanguage === "auto" && result.confidence < 40`
NeedsRetry(setting, confidence) ==
  setting = "auto" /\ confidence < ConfidenceThreshold

\* Mutant: a tie goes to the alternate result (>= for >).
PickResultOnTie(result, altResult) ==
  IF altResult.confidence >= result.confidence THEN altResult ELSE result

\* ocrImage: `altResult.confidence > result.confidence`
PickResult(result, altResult) ==
  IF altResult.confidence > result.confidence THEN altResult ELSE result

\* ------------------------------------------------------------------------
\* contentScript.js: the status panel
\* ------------------------------------------------------------------------
\* A status value is the record
\*   statusPanel      the panel element exists (statusPanel !== null)
\*   classes          its class list, of it-hidden, it-success, it-error
\*   statusText       text of .it-status, without its interpolated values
\*   progress         width of .it-progress-fill, a fraction <<num, den>> of
\*                    percent, or <<>> before the first write
\*   statusStartTime  statusStartTime !== null
\*   statusTimer      statusTimer !== null
\*   intervals        interval timers registered with the browser
\*   hideTimeouts     pending setTimeout(() => hideStatus()) callbacks
\* The text of .it-details is display only and is left out.

InitialStatus ==
  [statusPanel |-> FALSE, classes |-> {}, statusText |-> "Initializing...",
   progress |-> <<>>, statusStartTime |-> FALSE, statusTimer |-> FALSE,
   intervals |-> 0, hideTimeouts |-> 0]

\* Mutant: the interval is not cleared.
clearStatusTimerLeaking(s) ==
  [s EXCEPT !.statusTimer = FALSE, !.statusStartTime = FALSE]

clearStatusTimer(s) ==
  [s EXCEPT !.intervals = IF s.statusTimer THEN @ - 1 ELSE @,
            !.statusTimer = FALSE,
            !.statusStartTime = FALSE]

updateStatus(s, text, progress) ==
  [s EXCEPT !.statusPanel = TRUE,
            !.classes = {},
            !.statusText = text,
            !.progress = IF progress # <<>> THEN progress ELSE @,
            !.statusStartTime = TRUE,
            !.statusTimer = IF s.statusStartTime THEN @ ELSE TRUE,
            !.intervals = IF s.statusStartTime THEN @ ELSE @ + 1]

showSuccess(s, message) ==
  clearStatusTimer(
    [s EXCEPT !.statusPanel = TRUE,
              !.classes = @ \cup {"it-success"},
              !.statusText = message,
              !.progress = <<100, 1>>,
              !.hideTimeouts = @ + 1])

showError(s, message) ==
  clearStatusTimer(
    [s EXCEPT !.statusPanel = TRUE,
              !.classes = @ \cup {"it-error"},
              !.statusText = "Error: " \o message,
              !.hideTimeouts = @ + 1])

hideStatus(s) ==
  clearStatusTimer(
    [s EXCEPT !.classes = IF s.statusPanel THEN @ \cup {"it-hidden"} ELSE @])

\* A whole percentage as a progress fraction.
Pct(n) == <<n, 1>>

\* ------------------------------------------------------------------------
\* Recognition results and text blocks
\* ------------------------------------------------------------------------
\* A recognition result (Tesseract's result.data) is the record
\*   [confidence, text, paragraphs, lines]; paragraphs and lines are
\*   sequences of blocks [text, bbox], bbox = [x0, y0, x1, y1].

\* The frame slot of a result not yet received.
NoData == [confidence |-> -1, text |-> <<>>, paragraphs |-> <<>>, lines |-> <<>>]

\* lines.map((l) => l.text).join("\n")
RECURSIVE JoinLines(_)
JoinLines(lines) ==
  IF lines = <<>> THEN <<>>
  ELSE IF Len(lines) = 1 THEN lines[1].text
  ELSE lines[1].text \o <<10>> \o JoinLines(Tail(lines))

\* utils.js
extractTextFromOcrData(ocrData) ==
  IF Len(ocrData.lines) > 0 THEN Trim(JoinLines(ocrData.lines))
  ELSE IF Trim(ocrData.text) # <<>> THEN Trim(ocrData.text)
  ELSE <<>>

\* scanner.js, processImage step 3: paragraphs if any, else lines
TextBlocks(ocrData) ==
  IF Len(ocrData.paragraphs) > 0 THEN ocrData.paragraphs ELSE ocrData.lines

\* Mutant: the length is taken of the untrimmed text.
HasActualTextUntrimmed(b) == Len(b.text) >= MinBlockTextLength

\* `b.text && b.text.trim().length >= 2`
HasActualText(b) ==
  b.text # <<>> /\ Len(Trim(b.text)) >= MinBlockTextLength

\* blocks.filter(...)
RECURSIVE FilterBlocks(_)
FilterBlocks(blocks) ==
  IF blocks = <<>> THEN <<>>
  ELSE IF HasActualText(Head(blocks))
       THEN <<Head(blocks)>> \o FilterBlocks(Tail(blocks))
       ELSE FilterBlocks(Tail(blocks))

\* A length in pixels is the fraction <<num, den>> with den > 0, kept in
\* lowest terms: the quotient the division of the source computes.
RECURSIVE Gcd(_, _)
Gcd(a, b) == IF b = 0 THEN a ELSE Gcd(b, a % b)

Abs(n) == IF n < 0 THEN 0 - n ELSE n

Quotient(num, den) ==
  LET g == Gcd(Abs(num), den) IN <<num \div g, den \div g>>

\* Mutant: the size is not clamped from below.
calculateFontSizeNoMinimum(width, height, textLength, minSize, maxSize) ==
  LET area == Quotient(width[1] * height[1], width[2] * height[2])
      num == 16 * area[1]
      den == 25 * area[2] * textLength
  IN  IF textLength = 0 \/ num >= maxSize * maxSize * den
      THEN [nan |-> FALSE, squared |-> <<maxSize * maxSize, 1>>]
      ELSE [nan |-> FALSE, squared |-> Quotient(num, den)]

\* utils.js: Math.min(Math.max(minSize, Math.sqrt(area / textLength) * 0.8),
\* maxSize). width and height are fractions <<num, den>>; the result is
\* [nan, squared]: NaN, or the square of the font size as a fraction
\* (positive sizes are ordered as their squares are).
calculateFontSize(width, height, textLength, minSize, maxSize) ==
  LET area == Quotient(width[1] * height[1], width[2] * height[2])
      num == 16 * area[1]
      den == 25 * area[2] * textLength
      low == [nan |-> FALSE, squared |-> <<minSize * minSize, 1>>]
      high == [nan |-> FALSE, squared |-> <<maxSize * maxSize, 1>>]
  IN  IF num < 0 \/ (num = 0 /\ textLength = 0)
      THEN [nan |-> TRUE, squared |-> <<0, 1>>]
      ELSE IF textLength = 0 THEN high
      ELSE IF num <= minSize * minSize * den THEN low
      ELSE IF num >= maxSize * maxSize * den THEN high
      ELSE [nan |-> FALSE, squared |-> Quotient(num, den)]

\* ------------------------------------------------------------------------
\* State
\* ------------------------------------------------------------------------

VARIABLES
  ocrLanguage,  \* contentScript.js: the configured language
  selectionMode, \* contentScript.js: the Select button is active
  status,       \* the status panel, its timer and its pending hide timeouts
  sel,          \* the activations of processSelectedRegion
  popups,       \* the .it-translation-popup elements of the page
  images,       \* document.images: the sizes of each image
  complete,     \* the images with img.complete
  listening,    \* the images with a pending once-only load listener
  processed,    \* the images carrying data-ocr-processed
  scan,         \* the activation of processImage of each image
  overlays,     \* the .it-block-overlay elements of the page
  scroll,       \* window.scrollX, window.scrollY
  drag          \* selection.js: isSelecting, selectionBox and the box elements

vars ==
  <<ocrLanguage, selectionMode, status, sel, popups, images, complete, listening, processed,
    scan, overlays, scroll, drag>>

pageVars == <<scroll, drag>>

selectionVars == <<selectionMode, sel, popups>>

scannerVars == <<images, complete, listening, processed, scan, overlays>>

SelRuns == 1..MaxSelRuns

\* The drag state of selection.js:
\*   isSelecting    the flag isSelecting
\*   selectionBox   selectionBox !== null
\*   width, height  the size mousemove gave the element selectionBox
\*   boxes          the .it-selection-box elements attached to the page
\*   inMode, onUI   selectionMode and isUIElement(e.target) at the mousedown
\*                  that set isSelecting (history)
\*   event          the last mouse event and whether its handler ran past
\*                  its early returns (history)
IdleDrag ==
  [isSelecting |-> FALSE, selectionBox |-> FALSE, width |-> 0, height |-> 0,
   boxes |-> 0, inMode |-> FALSE, onUI |-> FALSE, event |-> <<"none", FALSE>>]

Images == 1..NumImages

\* An activation of processSelectedRegion with ocrImage inlined:
\*   pc            idle, capture, primary, fallback, translate, done
\*   rect          the selection rectangle
\*   primaryLang, result, text     the locals of ocrImage / the run
\*   calls         languages of the recognition requests issued (history)
\*   primaryResult, altResult      what the passes returned (history)
\*   returned      ocrImage has returned its result (history)
\*   setting       ocrLanguage as ocrImage read it on entry (history)
\*   changed       ocrLanguage was changed during the run (history)
\*   reports       showSuccess / showError calls of the run (history)
IdleSelection ==
  [pc |-> "idle", rect |-> [width |-> 0, height |-> 0], primaryLang |-> "",
   result |-> NoData, text |-> <<>>, calls |-> <<>>, primaryResult |-> NoData,
   altResult |-> NoData, returned |-> FALSE, setting |-> "",
   changed |-> FALSE, reports |-> <<>>]

\* An activation of processImage:
\*   pc            idle, capture, quick, primary, translate, done
\*   detectedLang, ocrData, blocks, validBlocks, translations   its locals
\*   calls         languages of the recognition requests issued (history)
\*   quickText     text of the quick detection pass (history)
\*   quickLang     what detectLanguageFromText made of it (history)
\*   requests      texts of the translation requests issued (history)
\*   answers       what the translation requests were answered (history)
\*   setting       ocrLanguage as processImage read it (history)
\*   changed, reports   as for a selection run
IdleScan ==
  [pc |-> "idle", detectedLang |-> "", ocrData |-> NoData, blocks |-> <<>>,
   validBlocks |-> <<>>, translations |-> <<>>, calls |-> <<>>,
   quickText |-> <<>>, quickLang |-> "", requests |-> <<>>,
   answers |-> <<>>, setting |-> "", changed |-> FALSE, reports |-> <<>>]

Resting(f) == f.pc \in {"idle", "done"}

\* A timer slot is free for the setTimeout of showSuccess / showError.
CanReport == status.hideTimeouts < MaxHideTimeouts

\* Mutant: the report does not end the run.
ReportAndGoOn(f, kind, message) ==
  [f EXCEPT !.reports = Append(@, <<kind, message>>)]

Report(f, kind, message) ==
  [f EXCEPT !.pc = "done", !.reports = Append(@, <<kind, message>>)]

\* A JavaScript value that is a string or undefined.
Str(t) == [undefined |-> FALSE, text |-> t]
Undefined == [undefined |-> TRUE, text |-> <<>>]

\* ------------------------------------------------------------------------
\* contentScript.js: toolbar handlers and timers
\* ------------------------------------------------------------------------

MarkChanged(f) == IF Resting(f) THEN f ELSE [f EXCEPT !.changed = TRUE]

\* the change event of #it-lang-select
handleLanguageChange(value) ==
  /\ value # ocrLanguage
  /\ ocrLanguage' = value
  /\ status' = updateStatus(status, "Language: ", Pct(0))
  /\ sel' = [r \in SelRuns |-> MarkChanged(sel[r])]
  /\ scan' = [i \in Images |-> MarkChanged(scan[i])]
  /\ UNCHANGED <<pageVars, selectionMode, popups, images, complete,
                 listening, processed, overlays>>

\* the click on #it-select-btn
toggleSelectionMode ==
  /\ selectionMode' = ~selectionMode
  /\ status' = IF selectionMode'
                THEN updateStatus(status, "Click and drag to select text area",
                                  Pct(0))
                ELSE hideStatus(status)
  /\ UNCHANGED <<pageVars, ocrLanguage, sel, popups, scannerVars>>

\* a setTimeout(() => hideStatus(), ...) of showSuccess / showError fires
HideTimeout ==
  /\ status.hideTimeouts > 0
  /\ status' = hideStatus([status EXCEPT !.hideTimeouts = @ - 1])
  /\ UNCHANGED <<pageVars, ocrLanguage, selectionVars, scannerVars>>

\* ------------------------------------------------------------------------
\* selection.js / ocr.js / utils.js: the selection path
\* ------------------------------------------------------------------------

\* handleMouseUp at the end of a drag made in selection mode:
\* processSelectedRegion(rect), up to `await captureRegionViaBackground`
processSelectedRegion(r, rect) ==
  /\ selectionMode
  /\ Resting(sel[r])
  /\ \A q \in SelRuns : q < r => ~Resting(sel[q])
  /\ sel' = [sel EXCEPT ![r] =
       [IdleSelection EXCEPT !.pc = "capture", !.rect = rect]]
  /\ status' = updateStatus(status, "Capturing selected area...", Pct(10))
  /\ UNCHANGED <<pageVars, ocrLanguage, selectionMode, popups, scannerVars>>

\* handleMouseDown: returns at once with selection mode off or on the
\* extension's own UI; otherwise sets isSelecting and attaches a new box,
\* whatever isSelecting and selectionBox were
handleMouseDown(onUI) ==
  /\ (selectionMode /\ ~onUI) => drag.boxes < MaxBoxes
  /\ drag' =
       IF ~selectionMode \/ onUI
       THEN [drag EXCEPT !.event = <<"mousedown", FALSE>>]
       ELSE [drag EXCEPT !.isSelecting = TRUE, !.selectionBox = TRUE,
                         !.width = 0, !.height = 0, !.boxes = @ + 1,
                         !.inMode = selectionMode, !.onUI = onUI,
                         !.event = <<"mousedown", TRUE>>]
  /\ UNCHANGED <<scroll, ocrLanguage, selectionVars, status, scannerVars>>

\* handleMouseMove: resizes the box of the drag in progress
handleMouseMove(width, height) ==
  /\ drag' =
       IF ~drag.isSelecting \/ ~drag.selectionBox
       THEN [drag EXCEPT !.event = <<"mousemove", FALSE>>]
       ELSE [drag EXCEPT !.width = width, !.height = height,
                         !.event = <<"mousemove", TRUE>>]
  /\ UNCHANGED <<scroll, ocrLanguage, selectionVars, status, scannerVars>>

\* Mutant: only the width of the selection is checked.
TooSmallWidthOnly(rect) == rect.width < MinSelectionSize

\* handleMouseUp: `rect.width < 20 || rect.height < 20`
TooSmall(rect) ==
  rect.width < MinSelectionSize \/ rect.height < MinSelectionSize

\* handleMouseUp: ends the drag and removes its box; a rect of at least
\* 20 x 20 goes to processSelectedRegion, which runs up to its first await
handleMouseUp ==
  LET rect == [width |-> drag.width, height |-> drag.height]
      free == {r \in SelRuns : Resting(sel[r])}
  IN  IF ~drag.isSelecting \/ ~drag.selectionBox
      THEN /\ drag' = [drag EXCEPT !.event = <<"mouseup", FALSE>>]
           /\ UNCHANGED <<scroll, ocrLanguage, selectionVars, status,
                          scannerVars>>
      ELSE /\ drag' = [drag EXCEPT !.isSelecting = FALSE,
                                   !.selectionBox = FALSE,
                                   !.width = 0, !.height = 0,
                                   !.boxes = @ - 1,
                                   !.event = <<"mouseup", ~TooSmall(rect)>>]
           /\ IF TooSmall(rect)
              THEN UNCHANGED <<sel, status>>
              ELSE /\ free # {}
                   /\ LET r == CHOOSE q \in free : \A p \in free : q <= p
                      IN  sel' = [sel EXCEPT ![r] =
                            [IdleSelection EXCEPT !.pc = "capture",
                                                  !.rect = rect]]
                   /\ status' = updateStatus(
                        status, "Capturing selected area...", Pct(10))
           /\ UNCHANGED <<scroll, ocrLanguage, selectionMode, popups,
                          scannerVars>>

\* the click on a popup: popup.remove()
DismissPopup ==
  /\ popups # <<>>
  /\ popups' = <<>>
  /\ UNCHANGED <<pageVars, ocrLanguage, selectionMode, sel, status,
                 scannerVars>>

\* the capture resolves: ocrImage runs up to the primary `await`
SelCaptureReturn(r) ==
  /\ sel[r].pc = "capture"
  /\ LET lang == determineOcrLanguage(ocrLanguage, sel[r].rect.width,
                                      sel[r].rect.height)
     IN  sel' = [sel EXCEPT ![r].pc = "primary", ![r].primaryLang = lang,
                            ![r].calls = Append(@, lang),
                            ![r].setting = ocrLanguage]
  /\ status' = updateStatus(status, "Running OCR", Pct(10))
  /\ UNCHANGED <<pageVars, ocrLanguage, selectionMode, popups, scannerVars>>

\* the capture rejects: catch, showError(e.message)
SelCaptureFail(r) ==
  /\ sel[r].pc = "capture"
  /\ CanReport
  /\ sel' = [sel EXCEPT ![r] = Report(@, "showError", "Capture failed")]
  /\ status' = showError(status, "Capture failed")
  /\ UNCHANGED <<pageVars, ocrLanguage, selectionMode, popups, scannerVars>>

\* runOcrWithLanguage: the logger callback of a pass in flight;
\* percent = Math.round(m.progress * 100), progress 45 + percent * 0.4
SelRecognizeProgress(r, percent) ==
  /\ sel[r].pc \in {"primary", "fallback"}
  /\ status' = updateStatus(status, "Recognizing", <<225 + 2 * percent, 5>>)
  /\ UNCHANGED <<pageVars, ocrLanguage, selectionVars, scannerVars>>

\* ocrImage returns `result` to processSelectedRegion, which runs up to
\* translateText or to the no-text error.
SelAfterOcr(r, frame, st, result) ==
  LET st1 == updateStatus(st, "OCR Complete!", Pct(85))
      text == extractTextFromOcrData(result)
      f == [frame EXCEPT !.result = result, !.text = text,
                         !.returned = TRUE]
  IN  IF text = <<>> \/ Len(text) < MinSelectionTextLength
      THEN /\ CanReport
           /\ sel' = [sel EXCEPT ![r] =
                Report(f, "showError", "No text detected in selection")]
           /\ status' = showError(st1, "No text detected in selection")
      ELSE /\ sel' = [sel EXCEPT ![r] = [f EXCEPT !.pc = "translate"]]
           /\ status' = updateStatus(st1, "Translating...", Pct(80))

\* the primary pass resolves
SelPrimaryReturn(r, data) ==
  /\ sel[r].pc = "primary"
  /\ LET f == [sel[r] EXCEPT !.primaryResult = data]
     IN  IF NeedsRetry(ocrLanguage, data.confidence)
         THEN /\ sel' = [sel EXCEPT ![r] =
                   [f EXCEPT !.pc = "fallback", !.result = data,
                             !.calls = Append(@, alternateLang(f.primaryLang))]]
              /\ status' = updateStatus(status, "Low confidence, trying",
                                        Pct(50))
         ELSE SelAfterOcr(r, f, status, data)
  /\ UNCHANGED <<pageVars, ocrLanguage, selectionMode, popups, scannerVars>>

\* the alternate pass resolves
SelFallbackReturn(r, data) ==
  /\ sel[r].pc = "fallback"
  /\ SelAfterOcr(r, [sel[r] EXCEPT !.altResult = data], status,
                 PickResult(sel[r].result, data))
  /\ UNCHANGED <<pageVars, ocrLanguage, selectionMode, popups, scannerVars>>

\* a recognition pass rejects: catch, showError(e.message)
SelRecognizeFail(r) ==
  /\ sel[r].pc \in {"primary", "fallback"}
  /\ CanReport
  /\ sel' = [sel EXCEPT ![r] = Report(@, "showError", "Recognition failed")]
  /\ status' = showError(status, "Recognition failed")
  /\ UNCHANGED <<pageVars, ocrLanguage, selectionMode, popups, scannerVars>>

\* Mutant: the popups already in the page are left there.
showSelectionOverlayKeeping(r, answer) ==
  IF answer.kind = "undefined" THEN popups
  ELSE Append(popups,
              [run |-> r, rect |-> sel[r].rect, text |-> answer.translated,
               fontSize |->
                 calculateFontSize(<<sel[r].rect.width, 1>>,
                                   <<sel[r].rect.height, 1>>,
                                   Len(answer.translated), 12, 32)])

\* showSelectionOverlay: removes every popup, then reads
\* translatedText.length, which throws on undefined before the new popup
\* is appended.
showSelectionOverlay(r, answer) ==
  IF answer.kind = "undefined" THEN <<>>
  ELSE <<[run |-> r, rect |-> sel[r].rect, text |-> answer.translated,
          fontSize |->
            calculateFontSize(<<sel[r].rect.width, 1>>,
                              <<sel[r].rect.height, 1>>,
                              Len(answer.translated), 12, 32)]>>

\* translateText: the callback of chrome.runtime.sendMessage
SelTranslateReturn(r, answer) ==
  /\ sel[r].pc = "translate"
  /\ IF answer.kind = "undefined"
     THEN \* TypeError out of the callback: no status call follows
          /\ popups' = showSelectionOverlay(r, answer)
          /\ sel' = [sel EXCEPT ![r].pc = "done"]
          /\ UNCHANGED status
     ELSE IF answer.kind = "ok"
     THEN /\ CanReport
          /\ popups' = showSelectionOverlay(r, answer)
          /\ sel' = [sel EXCEPT ![r] =
               Report(@, "showSuccess", "Translation complete!")]
          /\ status' = showSuccess(status, "Translation complete!")
     ELSE /\ CanReport
          /\ sel' = [sel EXCEPT ![r] = Report(@, "showError", answer.kind)]
          /\ status' = showError(status, answer.kind)
          /\ UNCHANGED popups
  /\ UNCHANGED <<pageVars, ocrLanguage, selectionMode, scannerVars>>

\* ------------------------------------------------------------------------
\* scanner.js / utils.js: the scan path
\* ------------------------------------------------------------------------

\* scanImages: `img.width >= 80 && img.height >= 40`
Processable(img) == img.width >= MinImageWidth /\ img.height >= MinImageHeight

\* Mutant: processImage does not look at the processed marker.
StartProcessingAgain(starting) ==
  [i \in Images |->
     IF i \in starting THEN [IdleScan EXCEPT !.pc = "capture"] ELSE scan[i]]

\* processImage(img), from its call up to `await getImageAsDataUrl`, for
\* every image of `starting` that does not carry the processed marker
StartProcessing(starting) ==
  [i \in Images |->
     IF i \in starting /\ i \notin processed
     THEN [IdleScan EXCEPT !.pc = "capture"]
     ELSE scan[i]]

\* the click on #it-auto-btn: scanImages(), then updateStatus
handleScanClick ==
  LET processableImages == {i \in Images : Processable(images[i])}
      loaded == processableImages \cap complete
  IN  IF processableImages = {}
      THEN /\ CanReport
           /\ status' = updateStatus(
                showError(status, "No suitable images found on this page"),
                "Scanning images...", Pct(0))
           /\ UNCHANGED <<pageVars, ocrLanguage, selectionVars, scannerVars>>
      ELSE /\ scan' = StartProcessing(loaded)
           /\ processed' = processed \cup loaded
           /\ listening' = listening \cup (processableImages \ complete)
           /\ status' = updateStatus(status, "Scanning images...", Pct(0))
           /\ UNCHANGED <<pageVars, ocrLanguage, selectionVars, images, complete,
                          overlays>>

\* the user scrolls the page: window.scrollX and window.scrollY change and
\* every getBoundingClientRect moves with them
Scroll(x, y) ==
  /\ scroll # [x |-> x, y |-> y]
  /\ scroll' = [x |-> x, y |-> y]
  /\ UNCHANGED <<drag, ocrLanguage, selectionVars, status, scannerVars>>

\* the load event of an image: its once-only listeners call processImage
ImageLoad(i) ==
  /\ i \notin complete
  /\ complete' = complete \cup {i}
  /\ listening' = listening \ {i}
  /\ IF i \in listening
     THEN /\ scan' = StartProcessing({i})
          /\ processed' = processed \cup {i}
          /\ status' = IF i \in processed THEN status
                       ELSE updateStatus(status, "Capturing image...", Pct(5))
     ELSE UNCHANGED <<scan, processed, status>>
  /\ UNCHANGED <<pageVars, ocrLanguage, selectionVars, images, overlays>>

\* getImageAsDataUrl resolves: processImage reads ocrLanguage and issues
\* the quick detection pass (auto) or the full pass
ScanCaptureReturn(i) ==
  /\ scan[i].pc = "capture"
  /\ IF ocrLanguage = "auto"
     THEN /\ scan' = [scan EXCEPT ![i].pc = "quick",
                                  ![i].detectedLang = ocrLanguage,
                                  ![i].setting = ocrLanguage,
                                  ![i].calls = Append(@, "chi_sim")]
          /\ status' = updateStatus(status, "Detecting language...", Pct(10))
     ELSE /\ scan' = [scan EXCEPT ![i].pc = "primary",
                                  ![i].detectedLang = ocrLanguage,
                                  ![i].setting = ocrLanguage,
                                  ![i].calls = Append(@, ocrLanguage)]
          /\ status' = updateStatus(status, "Running OCR", Pct(20))
  /\ UNCHANGED <<pageVars, ocrLanguage, selectionVars, images, complete, listening,
                 processed, overlays>>

\* an await of processImage rejects: catch, showError(e.message || ...)
ScanFail(i, message) ==
  /\ CanReport
  /\ scan' = [scan EXCEPT ![i] = Report(@, "showError", message)]
  /\ status' = showError(status, message)
  /\ UNCHANGED <<pageVars, ocrLanguage, selectionVars, images, complete, listening,
                 processed, overlays>>

ScanCaptureFail(i) ==
  /\ scan[i].pc = "capture"
  /\ ScanFail(i, "Capture failed")

ScanRecognizeFail(i) ==
  /\ scan[i].pc \in {"quick", "primary"}
  /\ ScanFail(i, "Recognition failed")

\* Mutant: a tall image is read as vertical Japanese whatever was detected.
VerticalOverrideAnyLanguage(lang, img) ==
  IF isLikelyVerticalText(img.naturalWidth, img.naturalHeight)
  THEN "jpn_vert" ELSE lang

\* `detectedLang === "jpn" && isVertical`, on naturalWidth || width
VerticalOverride(lang, img) ==
  LET w == IF img.naturalWidth # 0 THEN img.naturalWidth ELSE img.width
      h == IF img.naturalHeight # 0 THEN img.naturalHeight ELSE img.height
  IN  IF lang = "jpn" /\ isLikelyVerticalText(w, h) THEN "jpn_vert" ELSE lang

\* detectTextLanguage resolves with the text of the chi_sim pass
ScanQuickReturn(i, text) ==
  /\ scan[i].pc = "quick"
  /\ LET lang == VerticalOverride(detectLanguageFromText(text), images[i])
     IN  scan' = [scan EXCEPT ![i].pc = "primary", ![i].detectedLang = lang,
                              ![i].quickText = text,
                              ![i].quickLang = detectLanguageFromText(text),
                              ![i].calls = Append(@, lang)]
  /\ status' = updateStatus(status, "Running OCR", Pct(20))
  /\ UNCHANGED <<pageVars, ocrLanguage, selectionVars, images, complete, listening,
                 processed, overlays>>

\* runOcrWithLanguage: the logger callback of the full pass in flight
ScanRecognizeProgress(i, percent) ==
  /\ scan[i].pc = "primary"
  /\ status' = updateStatus(status, "Recognizing", <<225 + 2 * percent, 5>>)
  /\ UNCHANGED <<pageVars, ocrLanguage, selectionVars, scannerVars>>

\* Mutant: the loop spreads 60 points over the blocks and counts the
\* block it is about to translate.
TranslatingBlockOvershoot(st, n, count) ==
  updateStatus(st, "Translating block", <<50 * count + 60 * (n + 1), count>>)

\* the loop head of step 4 for block n + 1 of `count`:
\* updateStatus(..., 50 + (n / count) * 40)
TranslatingBlock(st, n, count) ==
  updateStatus(st, "Translating block", <<50 * count + 40 * n, count>>)

\* Mutant: the check for an empty block list is missing.
NoBlocksUnchecked(blocks) == FALSE

\* `blocks.length === 0`
NoBlocks(blocks) == Len(blocks) = 0

\* the full pass resolves: steps 3 and 4 up to the first translation request
ScanPrimaryReturn(i, data) ==
  /\ scan[i].pc = "primary"
  /\ LET blocks == TextBlocks(data)
         validBlocks == FilterBlocks(blocks)
         f == [scan[i] EXCEPT !.ocrData = data, !.blocks = blocks]
     IN  IF NoBlocks(blocks)
         THEN /\ CanReport
              /\ scan' = [scan EXCEPT ![i] =
                   Report(f, "showError", "No text detected in image")]
              /\ status' = showError(status, "No text detected in image")
         ELSE IF Len(validBlocks) = 0
         THEN /\ CanReport
              /\ scan' = [scan EXCEPT ![i] =
                   Report(f, "showError", "No readable text found")]
              /\ status' = showError(status, "No readable text found")
         ELSE /\ scan' = [scan EXCEPT ![i] =
                   [f EXCEPT !.pc = "translate", !.validBlocks = validBlocks,
                             !.requests = <<Trim(validBlocks[1].text)>>]]
              /\ status' = TranslatingBlock(
                   updateStatus(status, "Translating text blocks", Pct(50)),
                   0, Len(validBlocks))
  /\ UNCHANGED <<pageVars, ocrLanguage, selectionVars, images, complete, listening,
                 processed, overlays>>

\* Mutant: a failed call pushes nothing readable instead of the original.
TranslatedOrNothing(block, answer) ==
  IF answer.kind = "ok" THEN Str(answer.translated) ELSE Undefined

\* translateTextAsync settles: the value pushed onto `translations`
Translated(block, answer) ==
  IF answer.kind = "ok" THEN Str(answer.translated)
  ELSE IF answer.kind = "undefined" THEN Undefined
  ELSE Str(block.text)

\* `!translated || !translated.trim()`
Blank(translated) == translated.undefined \/ Trim(translated.text) = <<>>

\* img.getBoundingClientRect(): the image in viewport coordinates
getBoundingClientRect(i) ==
  [left |-> images[i].left - scroll.x, top |-> images[i].top - scroll.y,
   width |-> images[i].width, height |-> images[i].height]

\* Mutant: the offsets of the box are not scaled.
blockOverlayUnscaledOffset(i, bbox, translated) ==
  LET imgRect == getBoundingClientRect(i)
      imageWidth == IF images[i].naturalWidth # 0
                    THEN images[i].naturalWidth ELSE imgRect.width
      imageHeight == IF images[i].naturalHeight # 0
                     THEN images[i].naturalHeight ELSE imgRect.height
      width == Quotient((bbox.x1 - bbox.x0) * imgRect.width, imageWidth)
      height == Quotient((bbox.y1 - bbox.y0) * imgRect.height, imageHeight)
  IN  [left |-> <<imgRect.left + scroll.x + bbox.x0, 1>>,
       top |-> <<imgRect.top + scroll.y + bbox.y0, 1>>,
       width |-> width, height |-> height,
       fontSize |-> calculateFontSize(width, height, Len(translated), 10, 24),
       imgRect |-> imgRect, scroll |-> scroll]

\* overlayTextBlocks, the body of its forEach: position, size and font
\* size of the overlay of one block; a length is the fraction <<num, den>>
\* of pixels; imgRect and scroll are kept as they were read (history)
blockOverlay(i, bbox, translated) ==
  LET imgRect == getBoundingClientRect(i)
      imageWidth == IF images[i].naturalWidth # 0
                    THEN images[i].naturalWidth ELSE imgRect.width
      imageHeight == IF images[i].naturalHeight # 0
                     THEN images[i].naturalHeight ELSE imgRect.height
      width == Quotient((bbox.x1 - bbox.x0) * imgRect.width, imageWidth)
      height == Quotient((bbox.y1 - bbox.y0) * imgRect.height, imageHeight)
  IN  [left |-> Quotient((imgRect.left + scroll.x) * imageWidth
                           + bbox.x0 * imgRect.width, imageWidth),
       top |-> Quotient((imgRect.top + scroll.y) * imageHeight
                          + bbox.y0 * imgRect.height, imageHeight),
       width |-> width, height |-> height,
       fontSize |-> calculateFontSize(width, height, Len(translated), 10, 24),
       imgRect |-> imgRect, scroll |-> scroll]

\* overlayTextBlocks: the overlays appended for blocks n..Len(blocks)
RECURSIVE overlayTextBlocks(_, _, _, _)
overlayTextBlocks(i, blocks, translations, n) ==
  IF n > Len(blocks) THEN <<>>
  ELSE (IF Blank(translations[n]) THEN <<>>
        ELSE <<[img |-> i, block |-> n, bbox |-> blocks[n].bbox,
                text |-> translations[n].text,
                place |-> blockOverlay(i, blocks[n].bbox,
                                       translations[n].text)]>>)
       \o overlayTextBlocks(i, blocks, translations, n + 1)

\* a translation request settles: push, then the next request or step 5
ScanTranslateReturn(i, answer) ==
  /\ scan[i].pc = "translate"
  /\ LET f == scan[i]
         n == Len(f.translations) + 1
         translations == Append(f.translations,
                                Translated(f.validBlocks[n], answer))
         g == [f EXCEPT !.translations = translations,
                        !.answers = Append(@, answer)]
     IN  IF n < Len(f.validBlocks)
         THEN /\ scan' = [scan EXCEPT ![i] =
                   [g EXCEPT !.requests =
                      Append(@, Trim(f.validBlocks[n + 1].text))]]
              /\ status' = TranslatingBlock(status, n, Len(f.validBlocks))
              /\ UNCHANGED overlays
         ELSE /\ CanReport
              /\ overlays' = overlays \o
                   overlayTextBlocks(i, f.validBlocks, translations, 1)
              /\ scan' = [scan EXCEPT ![i] =
                   Report(g, "showSuccess", "Translated text blocks!")]
              /\ status' = showSuccess(status, "Translated text blocks!")
  /\ UNCHANGED <<pageVars, ocrLanguage, selectionVars, images, complete, listening,
                 processed>>

\* ------------------------------------------------------------------------
\* Inputs: what the page holds and what the collaborators answer
\* ------------------------------------------------------------------------

\* Sequences over S of length at most n.
SeqsUpTo(S, n) == UNION {[1..k -> S] : k \in 0..n}

\* Confidence values around the retry threshold.
Confidences == {20, 39, 40, 60}

\* Rectangle sizes: square, exactly 1.2 times as tall as wide, and taller.
Sizes ==
  {[width |-> 100, height |-> 100],
   [width |-> 100, height |-> 120],
   [width |-> 100, height |-> 121]}

\* An image shown at the size `s`, at its natural size; left and top are
\* its position in the document.
Picture(s) ==
  [width |-> s.width, height |-> s.height, naturalWidth |-> s.width,
   naturalHeight |-> s.height, left |-> 40, top |-> 30]

\* An image too small to be scanned.
Icon ==
  [width |-> 16, height |-> 16, naturalWidth |-> 16, naturalHeight |-> 16,
   left |-> 0, top |-> 0]

BBox == [x0 |-> 100, y0 |-> 100, x1 |-> 300, y1 |-> 200]

Block(t) == [text |-> t, bbox |-> BBox]

\* Two Han characters; one Han character; kana behind a space; hangul; "Hi".
TextHan2 == <<19968, 40959>>
TextHan1 == <<19968>>
TextKana == <<32, 12354, 12543>>
TextHangul == <<44032, 4352>>
TextLatin == <<72, 105>>

\* Block texts: two that pass the filter, one of them padded; a single
\* character between white space; the empty string.
BlockTexts == {TextHan2, TextKana \o <<10>>, <<32, 19968, 9>>, <<>>}

LineTexts == {TextHangul, TextHan1}

Data(c, t, paragraphs, lines) ==
  [confidence |-> c, text |-> t, paragraphs |-> paragraphs, lines |-> lines]

\* Results that differ in confidence only.
ConfidenceResults ==
  {Data(c, TextHan2, <<Block(TextHan2)>>, <<Block(TextHan2)>>) :
     c \in Confidences}

\* Results of a selected region: text in lines, raw text only, too little.
SelectionResults ==
  {Data(c, TextHan2, <<>>, <<Block(TextHan2)>>) : c \in Confidences} \cup
  {Data(c, TextKana, <<>>, <<>>) : c \in Confidences} \cup
  {Data(c, TextHan1, <<>>, <<Block(TextHan1)>>) : c \in Confidences}

\* Results of a scanned image: every paragraph and line list.
BlockResults ==
  {Data(60, <<>>, [k \in DOMAIN ps |-> Block(ps[k])],
        [k \in DOMAIN ls |-> Block(ls[k])]) :
     ps \in SeqsUpTo(BlockTexts, MaxBlocks),
     ls \in SeqsUpTo(LineTexts, MaxBlocks)}

\* Texts of the quick detection pass: Latin, Han, Han with kana, hangul.
QuickTexts == {TextLatin, TextHan2, TextHan1 \o TextKana, TextHangul}

\* Recognizer progress events, as Math.round(m.progress * 100).
ProgressSamples == {0, 50, 100}

\* The ways chrome.runtime.sendMessage answers a TRANSLATE_TEXT request:
\* lastError set; no response; {error: true}; {translated: "..."}; and a
\* response whose `translated` is undefined (kind "undefined").
Answer(kind, t) == [kind |-> kind, translated |-> t]

TranslateAnswers ==
  {Answer("lastError", <<>>), Answer("none", <<>>), Answer("error", <<>>),
   Answer("ok", TextLatin), Answer("ok", <<>>), Answer("undefined", <<>>)}

\* What the translation server answers the fetch of translateLocally:
\*   reached   the fetch resolved (the server was reachable)
\*   ok        res.ok, an HTTP status of 200..299
\*   body      "unparsable" (res.json() rejects), "null" (the JSON null),
\*             "object" (an object without `translated`), or "translated"
\*             (an object whose `translated` is the text `translated`)
Http(reached, ok, body, t) ==
  [reached |-> reached, ok |-> ok, body |-> body, translated |-> t]

HttpResponses ==
  {Http(FALSE, FALSE, "unparsable", <<>>),
   Http(TRUE, FALSE, "translated", TextLatin),
   Http(TRUE, FALSE, "object", <<>>),
   Http(TRUE, TRUE, "unparsable", <<>>),
   Http(TRUE, TRUE, "null", <<>>),
   Http(TRUE, TRUE, "object", <<>>),
   Http(TRUE, TRUE, "translated", TextLatin),
   Http(TRUE, TRUE, "translated", <<>>)}

\* translateLocally: the promise rejects (threw) or resolves with `value`
translateLocally(http) ==
  IF ~http.reached \/ ~http.ok \/ http.body \in {"unparsable", "null"}
  THEN [threw |-> TRUE, value |-> Undefined]
  ELSE IF http.body = "object"
  THEN [threw |-> FALSE, value |-> Undefined]
  ELSE [threw |-> FALSE, value |-> Str(http.translated)]

\* the TRANSLATE_TEXT branch of the background listener: what sendResponse
\* delivers to the callback of chrome.runtime.sendMessage; a `translated`
\* that is undefined is dropped by the message serialisation
onMessage(http) ==
  LET outcome == translateLocally(http)
  IN  IF outcome.threw THEN Answer("error", <<>>)
      ELSE IF outcome.value.undefined THEN Answer("undefined", <<>>)
      ELSE Answer("ok", outcome.value.text)

\* Characters at the ends of the ranges of the three expressions, just
\* outside them, and a Latin letter.
DetectChars ==
  {HanFirst, HanLast, HanLast + 1, HiraganaFirst, HiraganaFirst - 1,
   KatakanaLast, HangulFirst, JamoLast, 72}

\* Texts of the quick detection pass: every string over DetectChars.
DetectTexts == SeqsUpTo(DetectChars, MaxTextLen)

\* Pixel sizes around the ratio 1.2, for three widths.
GeometrySizes ==
  {[width |-> w, height |-> h] :
     w \in {50, 55, 100},
     h \in {50, 59, 60, 61, 65, 66, 67, 100, 119, 120, 121, 200}}

\* ------------------------------------------------------------------------
\* Specifications
\* ------------------------------------------------------------------------

\* The page after init(): toolbar built, nothing selected or scanned.
InitPage(language, mode, pictures, loaded) ==
  /\ ocrLanguage = language
  /\ selectionMode = mode
  /\ status = InitialStatus
  /\ sel = [r \in SelRuns |-> IdleSelection]
  /\ popups = <<>>
  /\ images = pictures
  /\ complete = loaded
  /\ listening = {}
  /\ processed = {}
  /\ scan = [i \in Images |-> IdleScan]
  /\ overlays = <<>>
  /\ scroll = [x |-> 0, y |-> 0]
  /\ drag = IdleDrag

\* Width and height of the box at a mousemove: too narrow, too flat, one
\* pixel short, the smallest accepted.
DragSizes == {<<10, 30>>, <<30, 10>>, <<19, 20>>, <<20, 20>>}

\* Scroll positions of the window
ScrollOffsets == {0, 15}

\* Any page, with any input: the whole program.
Init ==
  \E pictures \in [Images -> {Icon} \cup {Picture(s) : s \in Sizes}],
     loaded \in SUBSET Images :
    InitPage("auto", FALSE, pictures, loaded)

Quiet == \A r \in SelRuns : Resting(sel[r])

Next ==
  \/ \E value \in Lang : handleLanguageChange(value)
  \/ toggleSelectionMode
  \/ HideTimeout
  \/ \E r \in SelRuns, rect \in Sizes : processSelectedRegion(r, rect)
  \/ \E r \in SelRuns : SelCaptureReturn(r)
  \/ \E r \in SelRuns : SelCaptureFail(r)
  \/ \E r \in SelRuns, p \in ProgressSamples : SelRecognizeProgress(r, p)
  \/ \E r \in SelRuns, d \in SelectionResults : SelPrimaryReturn(r, d)
  \/ \E r \in SelRuns, d \in SelectionResults : SelFallbackReturn(r, d)
  \/ \E r \in SelRuns : SelRecognizeFail(r)
  \/ \E r \in SelRuns, a \in TranslateAnswers : SelTranslateReturn(r, a)
  \/ DismissPopup
  \/ \E onUI \in BOOLEAN : handleMouseDown(onUI)
  \/ \E size \in DragSizes : handleMouseMove(size[1], size[2])
  \/ handleMouseUp
  \/ \E x \in ScrollOffsets, y \in ScrollOffsets : Scroll(x, y)
  \/ handleScanClick
  \/ \E i \in Images : ImageLoad(i)
  \/ \E i \in Images : ScanCaptureReturn(i)
  \/ \E i \in Images : ScanCaptureFail(i)
  \/ \E i \in Images, t \in QuickTexts : ScanQuickReturn(i, t)
  \/ \E i \in Images, p \in ProgressSamples : ScanRecognizeProgress(i, p)
  \/ \E i \in Images : ScanRecognizeFail(i)
  \/ \E i \in Images, d \in BlockResults : ScanPrimaryReturn(i, d)
  \/ \E i \in Images, a \in TranslateAnswers : ScanTranslateReturn(i, a)

Spec == Init /\ [][Next]_vars

\* Recognition on either path, with the language setting changing under
\* it.  The page either has the Select button active and no image large
\* enough to scan, or one loaded image to scan and selection mode off; the
\* user makes one selection at a time.
InitRecognition ==
  \/ InitPage("auto", TRUE, [i \in Images |-> Icon], Images)
  \/ \E s \in Sizes :
       InitPage("auto", FALSE,
                [i \in Images |-> IF i = 1 THEN Picture(s) ELSE Icon], Images)

NextRecognition ==
  \/ \E value \in Lang : handleLanguageChange(value)
  \/ HideTimeout
  \/ \E rect \in Sizes : Quiet /\ processSelectedRegion(1, rect)
  \/ \E r \in SelRuns : SelCaptureReturn(r)
  \/ \E r \in SelRuns, d \in ConfidenceResults : SelPrimaryReturn(r, d)
  \/ \E r \in SelRuns, d \in ConfidenceResults : SelFallbackReturn(r, d)
  \/ \E r \in SelRuns : SelRecognizeFail(r)
  \/ \E r \in SelRuns : SelTranslateReturn(r, Answer("ok", TextLatin))
  \/ ~selectionMode /\ handleScanClick
  \/ \E i \in Images : ScanCaptureReturn(i)
  \/ \E i \in Images, t \in QuickTexts : ScanQuickReturn(i, t)
  \/ \E i \in Images : ScanRecognizeFail(i)
  \/ \E i \in Images, d \in ConfidenceResults : ScanPrimaryReturn(i, d)
  \/ \E i \in Images : ScanTranslateReturn(i, Answer("ok", TextLatin))

SpecRecognition == InitRecognition /\ [][NextRecognition]_vars

\* The selection path alone, in auto mode, under every answer of the
\* collaborators; the user makes one selection at a time.
InitSelection == InitPage("auto", TRUE, [i \in Images |-> Icon], Images)

NextSelection ==
  \/ HideTimeout
  \/ \E rect \in Sizes : Quiet /\ processSelectedRegion(1, rect)
  \/ \E r \in SelRuns : SelCaptureReturn(r)
  \/ \E r \in SelRuns : SelCaptureFail(r)
  \/ \E r \in SelRuns, p \in ProgressSamples : SelRecognizeProgress(r, p)
  \/ \E r \in SelRuns, d \in SelectionResults : SelPrimaryReturn(r, d)
  \/ \E r \in SelRuns, d \in SelectionResults : SelFallbackReturn(r, d)
  \/ \E r \in SelRuns : SelRecognizeFail(r)
  \/ \E r \in SelRuns, a \in TranslateAnswers : SelTranslateReturn(r, a)

SpecSelection == InitSelection /\ [][NextSelection]_vars

\* One Scan click on a page whose images are all loaded and large enough
\* to scan.
InitScan ==
  InitPage("auto", FALSE,
           [i \in Images |-> Picture([width |-> 100, height |-> 100])], Images)

ScanResult == Data(60, TextHan2, <<Block(TextHan2)>>, <<Block(TextHan2)>>)

NextScan ==
  \/ HideTimeout
  \/ handleScanClick
  \/ \E i \in Images : ScanCaptureReturn(i)
  \/ \E i \in Images : ScanQuickReturn(i, TextHan2)
  \/ \E i \in Images : ScanRecognizeProgress(i, 50)
  \/ \E i \in Images : ScanPrimaryReturn(i, ScanResult)
  \/ \E i \in Images : ScanTranslateReturn(i, Answer("ok", TextLatin))

SpecScan == InitScan /\ [][NextScan]_vars

\* The scan of one image under every paragraph and line list and every
\* answer of the translation service.
InitBlocks ==
  InitPage("auto", FALSE,
           [i \in Images |->
              IF i = 1 THEN Picture([width |-> 100, height |-> 100]) ELSE Icon],
           Images)

NextBlocks ==
  \/ HideTimeout
  \/ handleScanClick
  \/ \E i \in Images : ScanCaptureReturn(i)
  \/ \E i \in Images : ScanCaptureFail(i)
  \/ \E i \in Images : ScanQuickReturn(i, TextHan2)
  \/ \E i \in Images, p \in ProgressSamples : ScanRecognizeProgress(i, p)
  \/ \E i \in Images : ScanRecognizeFail(i)
  \/ \E i \in Images, d \in BlockResults : ScanPrimaryReturn(i, d)
  \/ \E i \in Images, a \in TranslateAnswers : ScanTranslateReturn(i, a)

SpecBlocks == InitBlocks /\ [][NextBlocks]_vars

\* Both paths with every failure of the collaborators: a page without a
\* scannable image in selection mode, or a page of scannable images.
InitFailures ==
  \/ InitPage("auto", TRUE, [i \in Images |-> Icon], Images)
  \/ InitPage("auto", FALSE,
              [i \in Images |-> Picture([width |-> 100, height |-> 100])],
              Images)

\* Results: readable text, low confidence, no text, one character only.
FailureResults ==
  {Data(60, TextHan2, <<Block(TextHan2)>>, <<Block(TextHan2)>>),
   Data(20, TextHan2, <<Block(TextHan2)>>, <<Block(TextHan2)>>),
   Data(60, <<>>, <<>>, <<>>),
   Data(60, TextHan1, <<Block(TextHan1)>>, <<Block(TextHan1)>>)}

NextFailures ==
  \/ HideTimeout
  \/ handleScanClick
  \/ Quiet /\ processSelectedRegion(1, [width |-> 100, height |-> 100])
  \/ \E r \in SelRuns : SelCaptureReturn(r)
  \/ \E r \in SelRuns : SelCaptureFail(r)
  \/ \E r \in SelRuns, d \in FailureResults : SelPrimaryReturn(r, d)
  \/ \E r \in SelRuns, d \in FailureResults : SelFallbackReturn(r, d)
  \/ \E r \in SelRuns : SelRecognizeFail(r)
  \/ \E r \in SelRuns, h \in HttpResponses :
       SelTranslateReturn(r, onMessage(h))
  \/ \E i \in Images : ScanCaptureReturn(i)
  \/ \E i \in Images : ScanCaptureFail(i)
  \/ \E i \in Images : ScanQuickReturn(i, TextHan2)
  \/ \E i \in Images : ScanRecognizeFail(i)
  \/ \E i \in Images, d \in FailureResults : ScanPrimaryReturn(i, d)
  \/ \E i \in Images, h \in HttpResponses :
       ScanTranslateReturn(i, onMessage(h))

SpecFailures == InitFailures /\ [][NextFailures]_vars

\* A collaborator call of selection run r responds or fails.
SelResponds(r) ==
  \/ SelCaptureReturn(r)
  \/ SelCaptureFail(r)
  \/ \E d \in FailureResults : SelPrimaryReturn(r, d)
  \/ \E d \in FailureResults : SelFallbackReturn(r, d)
  \/ SelRecognizeFail(r)
  \/ \E h \in HttpResponses : SelTranslateReturn(r, onMessage(h))

\* A collaborator call of the scan run of image i responds or fails.
ScanResponds(i) ==
  \/ ScanCaptureReturn(i)
  \/ ScanCaptureFail(i)
  \/ ScanQuickReturn(i, TextHan2)
  \/ ScanRecognizeFail(i)
  \/ \E d \in FailureResults : ScanPrimaryReturn(i, d)
  \/ \E h \in HttpResponses : ScanTranslateReturn(i, onMessage(h))

\* Every pending timeout fires and every collaborator call is answered.
FairFailures ==
  /\ SpecFailures
  /\ WF_vars(HideTimeout)
  /\ \A r \in SelRuns : SF_vars(SelResponds(r))
  /\ \A i \in Images : SF_vars(ScanResponds(i))

\* The quick detection pass of the scan of one image, under every text.
InitDetect ==
  \E s \in Sizes :
    InitPage("auto", FALSE,
             [i \in Images |-> IF i = 1 THEN Picture(s) ELSE Icon], Images)

NextDetect ==
  \/ handleScanClick
  \/ \E i \in Images : ScanCaptureReturn(i)
  \/ \E i \in Images, t \in DetectTexts : ScanQuickReturn(i, t)

SpecDetect == InitDetect /\ [][NextDetect]_vars

\* The choice of the primary language of a selection, under every setting
\* and every size of the selected rectangle.
InitGeometry ==
  \E language \in Lang :
    InitPage(language, TRUE, [i \in Images |-> Icon], Images)

NextGeometry ==
  \/ \E rect \in GeometrySizes : Quiet /\ processSelectedRegion(1, rect)
  \/ \E r \in SelRuns : SelCaptureReturn(r)
  \/ \E r \in SelRuns : SelCaptureFail(r)
  \/ HideTimeout

SpecGeometry == InitGeometry /\ [][NextGeometry]_vars

\* ------------------------------------------------------------------------
\* Properties
\* ------------------------------------------------------------------------

\* The six codes of the language menu other than `auto`.
SixCodes == {"chi_sim", "chi_tra", "jpn", "jpn_vert", "kor", "eng"}

\* The fallback language as the table of the design.
FallbackTable ==
  [l \in SixCodes |->
     CASE l = "jpn_vert" -> "jpn"
       [] l = "jpn" -> "jpn_vert"
       [] l = "chi_sim" -> "jpn"
       [] OTHER -> "chi_sim"]

\* The selection run f has received the result of its primary pass.
PrimaryReturned(f) == f.primaryResult # NoData

\* The setting was `auto` when the run read it and has not changed since
\* the run began.
AutoMode(f) == f.setting = "auto" /\ ~f.changed

\* C1: a selection run in auto mode issues a fallback recognition call if
\* and only if its primary confidence is below 40 (none at 40 or above); in
\* any run a fallback call follows only a primary confidence below 40, it
\* carries the table's fallback of the primary language, and a run makes
\* at most two recognition calls.
C1_FallbackIffLowConfidence ==
  \A r \in SelRuns :
    LET f == sel[r]
    IN  /\ Len(f.calls) <= 2
        /\ Len(f.calls) = 2 =>
             /\ PrimaryReturned(f)
             /\ f.primaryResult.confidence < 40
             /\ f.calls[2] = FallbackTable[f.calls[1]]
        /\ (PrimaryReturned(f) /\ AutoMode(f)) =>
             (Len(f.calls) = 2 <=> f.primaryResult.confidence < 40)

\* C1 witness: an auto-mode run retried after a primary confidence of 39,
\* and the fallback pass has returned.
C1_Witness ==
  \E r \in SelRuns :
    /\ AutoMode(sel[r])
    /\ sel[r].primaryResult.confidence = 39
    /\ Len(sel[r].calls) = 2
    /\ sel[r].returned

\* C3: the recognition calls of a selection run follow the setting as the
\* run read it when it began recognition: a retry happens exactly when that
\* value was `auto` and the primary confidence was below 40.
C3_RetryFollowsSettingAtStart ==
  \A r \in SelRuns :
    PrimaryReturned(sel[r]) =>
      (Len(sel[r].calls) = 2 <=>
         (sel[r].setting = "auto" /\ sel[r].primaryResult.confidence < 40))

\* C4: with an explicit language that is not changed during the run, a run
\* of either path issues one recognition call, in that language, whatever
\* the confidence.
C4_ExplicitLanguageOneCall ==
  /\ \A r \in SelRuns :
       (sel[r].calls # <<>> /\ sel[r].setting # "auto" /\ ~sel[r].changed) =>
         sel[r].calls = <<sel[r].setting>>
  /\ \A i \in Images :
       (scan[i].calls # <<>> /\ scan[i].setting # "auto" /\ ~scan[i].changed)
         => scan[i].calls = <<scan[i].setting>>

\* C4 witness: a selection run under explicit `eng` got confidence 20 and
\* went on to translation with its one call.
C4_Witness ==
  \E r \in SelRuns :
    /\ sel[r].setting = "eng"
    /\ ~sel[r].changed
    /\ sel[r].primaryResult.confidence = 20
    /\ sel[r].returned
    /\ sel[r].calls = <<"eng">>

\* C5: every recognition call of either path carries one of the six
\* recognizer codes, never `auto`.
C5_AutoNeverPassed ==
  /\ \A r \in SelRuns : \A k \in 1..Len(sel[r].calls) :
       sel[r].calls[k] \in SixCodes
  /\ \A i \in Images : \A k \in 1..Len(scan[i].calls) :
       scan[i].calls[k] \in SixCodes

\* C5 witness: a scan run that read `auto` has issued its quick and full
\* passes while the setting was being changed.
C5_Witness ==
  \E i \in Images :
    /\ scan[i].setting = "auto"
    /\ scan[i].changed
    /\ Len(scan[i].calls) = 2

\* The language the quick detection pass resolves to, per quick text.
QuickLanguage(t) ==
  CASE t = TextLatin -> "eng"
    [] t = TextHan2 -> "chi_sim"
    [] t = TextHan1 \o TextKana -> "jpn"
    [] t = TextHangul -> "kor"

\* The recognition of scan run i is over: its full pass has returned.
ScanRecognized(i) == scan[i].ocrData # NoData

C2_HigherConfidenceWins ==
  \A r \in SelRuns :
    LET f == sel[r]
    IN  f.returned =>
          IF Len(f.calls) = 2
          THEN /\ f.altResult.confidence > f.primaryResult.confidence
                    => f.result = f.altResult
               /\ f.altResult.confidence <= f.primaryResult.confidence
                    => f.result = f.primaryResult
          ELSE f.result = f.primaryResult

\* C2 witness: both passes returned the same confidence with different
\* text, and the primary result was kept.
C2_Witness ==
  \E r \in SelRuns :
    /\ sel[r].returned
    /\ Len(sel[r].calls) = 2
    /\ sel[r].altResult.confidence = sel[r].primaryResult.confidence
    /\ sel[r].altResult # sel[r].primaryResult
    /\ sel[r].result = sel[r].primaryResult

\* C7: at no time are two recognition requests, or two translation
\* requests, of the one Scan click in flight.
C7_OneRequestInFlight ==
  /\ Cardinality({i \in Images : scan[i].pc \in {"quick", "primary"}}) <= 1
  /\ Cardinality({i \in Images : scan[i].pc = "translate"}) <= 1

\* The text has two characters or more once trimmed: two of its positions
\* hold something other than white space.
Readable(t) ==
  \E a, b \in 1..Len(t) : a < b /\ ~IsWhiteSpace(t[a]) /\ ~IsWhiteSpace(t[b])

\* vb holds exactly the readable blocks of bs, in their order.
ReadableInOrder(vb, bs) ==
  LET kept == {k \in 1..Len(bs) : Readable(bs[k].text)}
  IN  /\ Len(vb) = Cardinality(kept)
      /\ \A k \in kept : vb[Cardinality({j \in kept : j <= k})] = bs[k]

\* The overlays of image i.
OverlaysOf(i) == {k \in 1..Len(overlays) : overlays[k].img = i}

\* C8: the translation loop keeps one outcome per block, index-aligned:
\* request k carries block k's trimmed text, outcome k is what call k
\* resolved with, or block k's original text when call k failed; a failure
\* is followed by the next request; and the overlay of block k shows
\* outcome k in block k's box.
C8_OutcomesAlignedWithBlocks ==
  \A i \in Images :
    LET f == scan[i]
    IN  /\ Len(f.translations) = Len(f.answers)
        /\ Len(f.translations) <= Len(f.validBlocks)
        /\ f.pc = "translate" => Len(f.requests) = Len(f.answers) + 1
        /\ \A k \in 1..Len(f.translations) :
             /\ f.requests[k] = Trim(f.validBlocks[k].text)
             /\ f.answers[k].kind = "ok"
                  => f.translations[k] = Str(f.answers[k].translated)
             /\ f.answers[k].kind = "undefined" => f.translations[k].undefined
             /\ f.answers[k].kind \in {"lastError", "none", "error"}
                  => f.translations[k] = Str(f.validBlocks[k].text)
        /\ (f.pc = "done" /\ f.answers # <<>>) =>
             /\ Len(f.translations) = Len(f.validBlocks)
             /\ \A k \in OverlaysOf(i) :
                  /\ overlays[k].block \in 1..Len(f.validBlocks)
                  /\ ~f.translations[overlays[k].block].undefined
                  /\ overlays[k].text = f.translations[overlays[k].block].text
                  /\ overlays[k].bbox = f.validBlocks[overlays[k].block].bbox
             /\ \A n \in 1..Len(f.validBlocks) :
                  Cardinality({k \in OverlaysOf(i) : overlays[k].block = n}) =
                    IF \/ f.translations[n].undefined
                       \/ \A c \in 1..Len(f.translations[n].text) :
                            IsWhiteSpace(f.translations[n].text[c])
                    THEN 0 ELSE 1

\* C8 witness: of two blocks the first translation failed and the second
\* succeeded, and both overlays were rendered.
C8_Witness ==
  \E i \in Images :
    /\ scan[i].pc = "done"
    /\ Len(scan[i].answers) = 2
    /\ scan[i].answers[1].kind = "error"
    /\ scan[i].answers[2] = Answer("ok", TextLatin)
    /\ Cardinality(OverlaysOf(i)) = 2

\* C9: the candidate list is the paragraphs when there are any and the
\* lines otherwise, and the blocks kept are exactly the candidates with a
\* trimmed text of two characters or more, in the recognizer's order.
C9_BlockExtraction ==
  \A i \in Images :
    LET f == scan[i]
    IN  ScanRecognized(i) =>
          /\ f.blocks = IF f.ocrData.paragraphs # <<>>
                        THEN f.ocrData.paragraphs ELSE f.ocrData.lines
          /\ ReadableInOrder(f.validBlocks, f.blocks)

\* C9 witness: every paragraph was filtered out while a line was readable,
\* and nothing was kept.
C9_Witness ==
  \E i \in Images :
    /\ ScanRecognized(i)
    /\ scan[i].ocrData.paragraphs # <<>>
    /\ scan[i].validBlocks = <<>>
    /\ \E k \in 1..Len(scan[i].ocrData.lines) :
         Readable(scan[i].ocrData.lines[k].text)

\* The recognition of scan run i returned neither paragraphs nor lines.
NothingRecognized(i) ==
  /\ ScanRecognized(i)
  /\ scan[i].ocrData.paragraphs = <<>>
  /\ scan[i].ocrData.lines = <<>>

\* C10 as stated: a result without paragraphs and lines is no error:
\* showError is not called.
C10_NoTextIsNoError ==
  \A i \in Images :
    NothingRecognized(i) =>
      \A k \in 1..Len(scan[i].reports) : scan[i].reports[k][1] # "showError"

\* C10 amended: a result without paragraphs and lines ends the run with no
\* translation request and no overlay, and with the one report
\* showError("No text detected in image").
C10_NoTextReported ==
  \A i \in Images :
    NothingRecognized(i) =>
      /\ scan[i].pc = "done"
      /\ scan[i].requests = <<>>
      /\ OverlaysOf(i) = {}
      /\ scan[i].reports = <<<<"showError", "No text detected in image">>>>

\* C10 witness: a scan run ended on a result without paragraphs and lines.
C10_Witness == \E i \in Images : NothingRecognized(i) /\ scan[i].pc = "done"

\* The last report of the run f is a failure report.
Failed(f) ==
  /\ f.reports # <<>>
  /\ f.reports[Len(f.reports)][1] = "showError"

\* C11: the step in which a run reports a capture, recognition or no-text
\* failure ends the run with that one showError report, issues no request
\* and renders no overlay; afterwards the run does nothing more: its frame
\* changes only when the user starts a new run (a new drag, a Scan click).
C11_FailureAbortsRun ==
  [][/\ \A i \in Images :
          /\ (~Failed(scan[i]) /\ Failed(scan'[i])) =>
               /\ scan'[i].pc = "done"
               /\ Len(scan'[i].reports) = 1
               /\ scan'[i].calls = scan[i].calls
               /\ scan'[i].requests = scan[i].requests
               /\ overlays' = overlays
          /\ (Failed(scan[i]) /\ scan'[i] # scan[i]) =>
               handleScanClick /\ scan'[i].pc = "capture"
     /\ \A r \in SelRuns :
          /\ (~Failed(sel[r]) /\ Failed(sel'[r])) =>
               /\ sel'[r].pc = "done"
               /\ Len(sel'[r].reports) = 1
               /\ sel'[r].calls = sel[r].calls
               /\ popups' = popups
          /\ (Failed(sel[r]) /\ sel'[r] # sel[r]) =>
               /\ processSelectedRegion(r, sel'[r].rect)
               /\ sel'[r].pc = "capture"]_vars

\* C11 witness: two scan runs have ended in a failure, one after a
\* recognition failure and one on a result without text.
C11_Witness ==
  \E i, j \in Images :
    /\ scan[i].pc = "done"
    /\ scan[i].reports = <<<<"showError", "Recognition failed">>>>
    /\ scan[j].pc = "done"
    /\ scan[j].reports = <<<<"showError", "No text detected in image">>>>

\* The report the run frame g has in addition to those of f, if it is a
\* showError report; <<>> otherwise.
NewFailure(f, g) ==
  IF /\ Len(g.reports) = Len(f.reports) + 1
     /\ g.reports[Len(g.reports)][1] = "showError"
  THEN <<g.reports[Len(g.reports)][2]>>
  ELSE <<>>

\* The status panel st is visible and displays the error message m.
ShowsError(st, m) ==
  /\ st.statusPanel
  /\ "it-hidden" \notin st.classes
  /\ st.statusText = "Error: " \o m

\* C12: every step in which a run fails, or in which a Scan click finds no
\* suitable image, leaves the status panel visible and displaying that
\* failure's error message.
C12_FailureMessageVisible ==
  [][/\ \A i \in Images :
          NewFailure(scan[i], scan'[i]) # <<>> =>
            ShowsError(status', NewFailure(scan[i], scan'[i])[1])
     /\ \A r \in SelRuns :
          NewFailure(sel[r], sel'[r]) # <<>> =>
            ShowsError(status', NewFailure(sel[r], sel'[r])[1])
     /\ (handleScanClick /\ \A i \in Images : ~Processable(images[i])) =>
          ShowsError(status', "No suitable images found on this page")]_vars

\* C13: after a failure the next user action starts a run again: a Scan
\* click starts the run of every loaded scannable image whose last run
\* failed, and a drag in selection mode after a failed selection run starts
\* a new run.
C13_ReadyAfterFailure ==
  [][/\ handleScanClick =>
          \A i \in Images :
            (Failed(scan[i]) /\ Processable(images[i]) /\ i \in complete) =>
              scan'[i].pc = "capture" /\ scan'[i].reports = <<>>
     /\ \A r \in SelRuns :
          (Failed(sel[r]) /\ selectionMode) =>
            ENABLED processSelectedRegion(r, [width |-> 100, height |-> 100])
    ]_vars

\* The run f has ended with exactly one terminal status.
Terminal(f) == f.pc = "done" /\ Len(f.reports) = 1

\* C14: every started run, of a selection or of an image, eventually ends
\* with exactly one terminal status (showSuccess or showError), whatever
\* the collaborators answer.
C14_EveryRunReachesTerminalStatus ==
  /\ \A r \in SelRuns : (sel[r].pc = "capture") ~> Terminal(sel[r])
  /\ \A i \in Images : (scan[i].pc = "capture") ~> Terminal(scan[i])

\* The percentage p is at most the percentage q, fractions <<num, den>>.
AtMost(p, q) == p[1] * q[2] <= q[1] * p[2]

\* C15: within a run the reported percentage never decreases: no step in
\* which the code of the one selection run under way resumes (a
\* collaborator call of the run has settled) lowers the percentage that
\* the run or its recognition pass reported last.
C15_ProgressMonotonic ==
  [][\A r \in SelRuns :
       (~Resting(sel[r]) /\ sel'[r] # sel[r] /\ status.progress # <<>>) =>
         AtMost(status.progress, status'.progress)]_vars

\* C16: the percentage the status panel was given last lies in [0, 100],
\* for every progress the recognizer reports and every block index and
\* block count of the translation loop.
C16_PercentWithinRange ==
  status.progress # <<>> =>
    /\ status.progress[2] > 0
    /\ 0 <= status.progress[1]
    /\ status.progress[1] <= 100 * status.progress[2]

\* C16 witness: the translation loop reports the second of two blocks,
\* at 70 percent.
C16_Witness ==
  \E i \in Images :
    /\ scan[i].pc = "translate"
    /\ Len(scan[i].validBlocks) = 2
    /\ Len(scan[i].translations) = 1
    /\ status.statusText = "Translating block"
    /\ status.progress = <<140, 2>>

\* The server's answer is a failure: it was not reached, its status is
\* not a success, or its body is malformed.
BadResponse(http) ==
  \/ ~http.reached
  \/ ~http.ok
  \/ http.body \in {"unparsable", "null", "object"}

\* C17: a failure of the translation server reaches the caller as an
\* error: the background answers {error: true}, the translation loop of a
\* scan run takes the rejection (it keeps the block's original text), and
\* a selection run ends in showError without rendering a popup.
C17_ServerFailureIsDomainError ==
  [][\A h \in HttpResponses :
       BadResponse(h) =>
         /\ \A i \in Images :
              ScanTranslateReturn(i, onMessage(h)) =>
                /\ onMessage(h).kind = "error"
                /\ scan'[i].translations[Len(scan'[i].translations)] =
                     Str(scan[i].validBlocks[Len(scan'[i].translations)].text)
         /\ \A r \in SelRuns :
              SelTranslateReturn(r, onMessage(h)) =>
                /\ onMessage(h).kind = "error"
                /\ Failed(sel'[r])
                /\ popups' = popups]_vars

\* The number of characters of t in the code range lo..hi.
InRange(t, lo, hi) == Cardinality({k \in 1..Len(t) : lo <= t[k] /\ t[k] <= hi})

Kana(t) ==
  InRange(t, HiraganaFirst, HiraganaLast) + InRange(t, KatakanaFirst, KatakanaLast)

Han(t) == InRange(t, HanFirst, HanLast)

Hangul(t) == InRange(t, HangulFirst, HangulLast) + InRange(t, JamoFirst, JamoLast)

\* The quick detection pass of scan run i has returned.
QuickDetected(i) == scan[i].quickLang # ""

\* C18: a text with at least one hiragana or katakana character is
\* detected as jpn, whatever Han and hangul characters it also holds.
C18_KanaIsJapanese ==
  \A i \in Images :
    (QuickDetected(i) /\ Kana(scan[i].quickText) > 0) =>
      scan[i].quickLang = "jpn"

\* C18 witness: one kana character next to two hangul characters.
C18_Witness ==
  \E i \in Images :
    /\ QuickDetected(i)
    /\ Kana(scan[i].quickText) = 1
    /\ Hangul(scan[i].quickText) = 2
    /\ scan[i].quickLang = "jpn"

\* C19: a text without kana is detected as kor exactly when it holds more
\* hangul than Han characters, otherwise as chi_sim when it holds a Han
\* character, otherwise as eng.
C19_NoKanaDetection ==
  \A i \in Images :
    (QuickDetected(i) /\ Kana(scan[i].quickText) = 0) =>
      LET t == scan[i].quickText
      IN  /\ scan[i].quickLang = "kor" <=> Hangul(t) > Han(t)
          /\ Hangul(t) <= Han(t) =>
               scan[i].quickLang = IF Han(t) > 0 THEN "chi_sim" ELSE "eng"

\* C19 witness: as many hangul as Han characters, detected as chi_sim.
C19_Witness ==
  \E i \in Images :
    /\ QuickDetected(i)
    /\ Kana(scan[i].quickText) = 0
    /\ Hangul(scan[i].quickText) = 1
    /\ Han(scan[i].quickText) = 1
    /\ scan[i].quickLang = "chi_sim"

\* C20: in auto mode the primary language of a selection is jpn_vert when
\* the rectangle is more than 1.2 times as tall as wide and chi_sim
\* otherwise, the ratio 1.2 itself and squares included (whole pixels).
C20_PrimaryLanguageByShape ==
  \A r \in SelRuns :
    (sel[r].setting = "auto" /\ sel[r].primaryLang # "") =>
      sel[r].primaryLang =
        IF 5 * sel[r].rect.height > 6 * sel[r].rect.width
        THEN "jpn_vert" ELSE "chi_sim"

\* C20 witness: a rectangle exactly 1.2 times as tall as wide, in auto
\* mode, read as chi_sim.
C20_Witness ==
  \E r \in SelRuns :
    /\ sel[r].setting = "auto"
    /\ sel[r].rect = [width |-> 55, height |-> 66]
    /\ sel[r].primaryLang = "chi_sim"

\* C21: the language of a fallback pass is fixed by the primary language:
\* jpn for jpn_vert, jpn_vert for jpn, jpn for chi_sim and chi_sim for
\* chi_tra, kor and eng; it is never eng and never the primary language,
\* and the fallback of the fallback of jpn_vert or jpn is that language.
C21_FallbackLanguageTable ==
  \A r \in SelRuns :
    Len(sel[r].calls) = 2 =>
      LET primary == sel[r].calls[1]
          fallback == sel[r].calls[2]
      IN  /\ primary = "jpn_vert" => fallback = "jpn"
          /\ primary = "jpn" => fallback = "jpn_vert"
          /\ primary = "chi_sim" => fallback = "jpn"
          /\ primary \in {"chi_tra", "kor", "eng"} => fallback = "chi_sim"
          /\ fallback # "eng"
          /\ fallback # primary
          /\ primary \in {"jpn_vert", "jpn"} =>
               alternateLang(fallback) = primary

\* C21 witness: a fallback pass in jpn_vert after a primary pass in jpn
\* has returned.
C21_Witness ==
  \E r \in SelRuns :
    /\ sel[r].calls = <<"jpn", "jpn_vert">>
    /\ sel[r].returned

\* ------------------------------------------------------------------------
\* Placement of the block overlays
\* ------------------------------------------------------------------------

\* An image of natural size 1000x500 shown at 500x250.
Poster ==
  [width |-> 500, height |-> 250, naturalWidth |-> 1000,
   naturalHeight |-> 500, left |-> 40, top |-> 30]

\* An image of natural size 300x300 shown at 100x100.
Thumbnail ==
  [width |-> 100, height |-> 100, naturalWidth |-> 300,
   naturalHeight |-> 300, left |-> 7, top |-> 600]

BlockAt(t, bbox) == [text |-> t, bbox |-> bbox]

\* Boxes of recognised blocks: the box of BBox, a small one and one between.
OverlayBoxes ==
  {BBox,
   [x0 |-> 0, y0 |-> 0, x1 |-> 40, y1 |-> 20],
   [x0 |-> 10, y0 |-> 20, x1 |-> 90, y1 |-> 70]}

OverlayResults ==
  {Data(60, <<>>, [k \in DOMAIN bs |-> BlockAt(TextHan2, bs[k])], <<>>) :
     bs \in SeqsUpTo(OverlayBoxes, MaxBlocks) \ {<<>>}}

\* Translations of one, two and three characters, a blank one and a
\* failed request.
OverlayAnswers ==
  {Answer("ok", <<72>>), Answer("ok", TextLatin), Answer("ok", <<72, 105, 33>>),
   Answer("ok", <<32>>), Answer("error", <<>>)}

InitOverlay ==
  \E picture \in {Poster, Thumbnail} :
    InitPage("jpn", FALSE,
             [i \in Images |-> IF i = 1 THEN picture ELSE Icon], Images)

NextOverlay ==
  \/ HideTimeout
  \/ \E x \in ScrollOffsets, y \in ScrollOffsets : Scroll(x, y)
  \/ handleScanClick
  \/ \E i \in Images : ScanCaptureReturn(i)
  \/ \E i \in Images, d \in OverlayResults : ScanPrimaryReturn(i, d)
  \/ \E i \in Images, a \in OverlayAnswers : ScanTranslateReturn(i, a)

SpecOverlay == InitOverlay /\ [][NextOverlay]_vars

\* C22: the overlay of a block is placed by the scale of the image alone:
\* with scaleX = displayed width / natural width and scaleY likewise,
\* left = displayed left + scrollX + x0 * scaleX,
\* top = displayed top + scrollY + y0 * scaleY,
\* width = (x1 - x0) * scaleX and height = (y1 - y0) * scaleY, whatever the
\* other blocks are; on an image of 1000x500 shown at 500x250 the box
\* {100, 100, 300, 200} gets width 100, height 50 and an offset of 50 both
\* ways from the displayed corner of the image.
C22_OverlayPlacement ==
  \A k \in DOMAIN overlays :
    LET o == overlays[k]
        p == o.place
        img == images[o.img]
        displayLeft == p.imgRect.left
        displayTop == p.imgRect.top
    IN  /\ p.imgRect.width = img.width /\ p.imgRect.height = img.height
        /\ p.left[1] * img.naturalWidth =
             p.left[2] * ((displayLeft + p.scroll.x) * img.naturalWidth
                            + o.bbox.x0 * img.width)
        /\ p.top[1] * img.naturalHeight =
             p.top[2] * ((displayTop + p.scroll.y) * img.naturalHeight
                           + o.bbox.y0 * img.height)
        /\ p.width[1] * img.naturalWidth =
             p.width[2] * (o.bbox.x1 - o.bbox.x0) * img.width
        /\ p.height[1] * img.naturalHeight =
             p.height[2] * (o.bbox.y1 - o.bbox.y0) * img.height
        /\ (img = Poster /\ o.bbox = BBox) =>
             /\ p.width = <<100, 1>>
             /\ p.height = <<50, 1>>
             /\ p.left = <<displayLeft + p.scroll.x + 50, 1>>
             /\ p.top = <<displayTop + p.scroll.y + 50, 1>>

\* C22 witness: on the scrolled page, the box {100, 100, 300, 200} of the
\* 1000x500 image has its overlay, next to the overlay of another block.
C22_Witness ==
  \E k, m \in DOMAIN overlays :
    /\ images[overlays[k].img] = Poster
    /\ overlays[k].bbox = BBox
    /\ overlays[k].place.scroll = [x |-> 15, y |-> 15]
    /\ overlays[m].img = overlays[k].img
    /\ overlays[m].bbox # BBox

\* ------------------------------------------------------------------------
\* Font sizes of popups and block overlays
\* ------------------------------------------------------------------------

\* Selections of the smallest accepted size, a little larger, and large.
FontRects ==
  {[width |-> 20, height |-> 20],
   [width |-> 20, height |-> 30],
   [width |-> 100, height |-> 100]}

\* Translations of no, one, two and three characters.
FontAnswers ==
  {Answer("ok", <<>>), Answer("ok", <<72>>), Answer("ok", TextLatin),
   Answer("ok", <<72, 105, 33>>)}

\* A large and a small block of one image.
FontResult ==
  Data(60, <<>>,
       <<BlockAt(TextHan2, BBox),
         BlockAt(TextHan2, [x0 |-> 0, y0 |-> 0, x1 |-> 40, y1 |-> 20])>>,
       <<>>)

\* The Select button is active on a page with one scaled image to scan.
InitFont ==
  InitPage("jpn", TRUE, [i \in Images |-> IF i = 1 THEN Poster ELSE Icon],
           Images)

NextFont ==
  \/ HideTimeout
  \/ \E rect \in FontRects : Quiet /\ processSelectedRegion(1, rect)
  \/ \E r \in SelRuns : SelCaptureReturn(r)
  \/ \E r \in SelRuns :
       SelPrimaryReturn(r, Data(60, TextHan2, <<>>, <<>>))
  \/ \E r \in SelRuns, a \in FontAnswers : SelTranslateReturn(r, a)
  \/ Quiet /\ handleScanClick
  \/ \E i \in Images : ScanCaptureReturn(i)
  \/ \E i \in Images : ScanPrimaryReturn(i, FontResult)
  \/ \E i \in Images, a \in FontAnswers : ScanTranslateReturn(i, a)

SpecFont == InitFont /\ [][NextFont]_vars

\* a <= b, for fractions with positive denominators
FracLeq(a, b) == a[1] * b[2] <= b[1] * a[2]

\* The font size `size` is the one the area w*h and a text of n
\* characters get between minSize and maxSize: minSize when
\* 0.8 * sqrt(area / n) is at most minSize, maxSize when it is at least
\* maxSize, that value between them; and no longer text gets a larger size.
FontSizeWithin(size, w, h, n, minSize, maxSize) ==
  LET low == <<minSize * minSize, 1>>
      high == <<maxSize * maxSize, 1>>
      area == Quotient(w[1] * h[1], w[2] * h[2])
  IN  /\ ~size.nan
      /\ FracLeq(low, size.squared)
      /\ FracLeq(size.squared, high)
      /\ 16 * area[1] <= 25 * area[2] * n * minSize * minSize =>
           size.squared = low
      /\ 16 * area[1] >= 25 * area[2] * n * maxSize * maxSize =>
           size.squared = high
      /\ (/\ 16 * area[1] > 25 * area[2] * n * minSize * minSize
          /\ 16 * area[1] < 25 * area[2] * n * maxSize * maxSize) =>
           size.squared[1] * 25 * area[2] * n = size.squared[2] * 16 * area[1]
      /\ \A more \in 1..MaxTextLen :
           LET longer == calculateFontSize(w, h, n + more, minSize, maxSize)
           IN  ~longer.nan /\ FracLeq(longer.squared, size.squared)

\* C23: the font size of a selection popup lies in [12, 32] and that of a
\* block overlay in [10, 24]; it is the lower bound when the area per
\* character is small and the upper bound when it is large, and for the
\* same area a longer text never gets a larger size.
C23_FontSizeClamped ==
  /\ \A k \in DOMAIN popups :
       FontSizeWithin(popups[k].fontSize, <<popups[k].rect.width, 1>>,
                      <<popups[k].rect.height, 1>>, Len(popups[k].text),
                      12, 32)
  /\ \A k \in DOMAIN overlays :
       FontSizeWithin(overlays[k].place.fontSize, overlays[k].place.width,
                      overlays[k].place.height, Len(overlays[k].text),
                      10, 24)

\* C23 witness: a popup at the lower bound 12 next to block overlays at
\* the lower bound 10 and at the upper bound 24.
C23_Witness ==
  /\ \E k \in DOMAIN popups :
       /\ popups[k].fontSize.squared = <<144, 1>>
       /\ Len(popups[k].text) = 2
  /\ \E k, m \in DOMAIN overlays :
       /\ overlays[k].place.fontSize.squared = <<100, 1>>
       /\ overlays[m].place.fontSize.squared = <<576, 1>>

\* ------------------------------------------------------------------------
\* Repeated scans
\* ------------------------------------------------------------------------

\* A page whose first image is loaded and whose other images are still
\* loading; the Scan button is clicked any number of times.
InitRescan ==
  InitPage("jpn", FALSE,
           [i \in Images |-> Picture([width |-> 100, height |-> 100])], {1})

NextRescan ==
  \/ HideTimeout
  \/ handleScanClick
  \/ \E i \in Images : ImageLoad(i)
  \/ \E i \in Images : ScanCaptureReturn(i)
  \/ \E i \in Images : ScanCaptureFail(i)
  \/ \E i \in Images : ScanPrimaryReturn(i, ScanResult)
  \/ \E i \in Images : ScanTranslateReturn(i, Answer("ok", TextLatin))

SpecRescan == InitRescan /\ [][NextRescan]_vars

\* C24: over any sequence of Scan clicks and load events an image is
\* processed at most once: its run starts in the step that sets its
\* processed marker, the marker is never removed, and a run of a marked
\* image is never started again.
C24_ProcessedAtMostOnce ==
  [][\A i \in Images :
       /\ scan[i].pc # "idle" => i \in processed
       /\ i \in processed => i \in processed'
       /\ (scan'[i] # scan[i] /\ scan'[i].pc = "capture") =>
            /\ i \notin processed
            /\ i \in processed'
            /\ scan[i] = IdleScan
       /\ i \in processed => scan'[i].calls \in {scan[i].calls} \cup
            {Append(scan[i].calls, c) : c \in RecognizerCodes}]_vars

\* C24 witness: the run of an image that loaded after a Scan click and the
\* run of an image that was loaded before it are both over, and the Scan
\* button has been clicked again since.
C24_Witness ==
  /\ scan[1].pc = "done"
  /\ scan[2].pc = "done"
  /\ Len(scan[1].calls) = 1
  /\ Len(scan[2].calls) = 1
  /\ status.statusText = "Scanning images..."

\* ------------------------------------------------------------------------
\* Overlapping selection runs
\* ------------------------------------------------------------------------

\* The user makes up to MaxSelRuns selections in a row, each while the
\* earlier ones may still be in progress; the k-th one is run k.
InitOverlap == InitPage("jpn", TRUE, [i \in Images |-> Icon], Images)

OverlapAnswers ==
  {Answer("ok", TextLatin), Answer("error", <<>>), Answer("undefined", <<>>)}

NextOverlap ==
  \/ HideTimeout
  \/ DismissPopup
  \/ \E r \in SelRuns, rect \in FontRects :
       /\ \A q \in SelRuns : sel[q].pc # "done"
       /\ processSelectedRegion(r, rect)
  \/ \E r \in SelRuns : SelCaptureReturn(r)
  \/ \E r \in SelRuns :
       SelPrimaryReturn(r, Data(60, TextHan2, <<>>, <<>>))
  \/ \E r \in SelRuns, a \in OverlapAnswers : SelTranslateReturn(r, a)

SpecOverlap == InitOverlap /\ [][NextOverlap]_vars

\* C25: under any interleaving of overlapping selection runs the page has
\* at most one selection popup: a popup enters the page only when the
\* translation of a run completes, and it is then the only popup, so the
\* popup shown is that of the run whose translation completed last.
C25_OnePopup ==
  [][/\ Len(popups) <= 1
     /\ Len(popups') <= 1
     /\ \A r \in SelRuns :
          (sel[r].pc = "translate" /\ Failed(sel[r]') = FALSE
             /\ sel'[r].reports # sel[r].reports) =>
            /\ Len(popups') = 1
            /\ popups'[1].run = r
            /\ popups'[1].rect = sel[r].rect
     /\ (popups' # popups /\ popups' # <<>>) =>
          \E r \in SelRuns :
            /\ sel[r].pc = "translate"
            /\ sel'[r].pc = "done"
            /\ popups'[1].run = r]_vars

\* C25 witness: the run started second has shown its translation and is
\* over, and the popup in the page is that of the run started first.
C25_Witness ==
  /\ Len(popups) = 1
  /\ popups[1].run = 1
  /\ sel[1].pc = "done"
  /\ sel[2].pc = "done"
  /\ sel[2].reports = <<<<"showSuccess", "Translation complete!">>>>

\* A selection or scan run is between its first updateStatus and its
\* terminal status.
RunInProgress ==
  \/ \E r \in SelRuns : ~Resting(sel[r])
  \/ \E i \in Images : ~Resting(scan[i])

\* C26: the delayed hide that the terminal status of a finished run
\* scheduled never hides or resets the status of a later run in progress:
\* when it fires during such a run the panel stays visible and the
\* elapsed-time timer keeps running.
C26_HideSparesLaterRun ==
  [][(status'.hideTimeouts < status.hideTimeouts /\ RunInProgress) =>
       /\ "it-hidden" \notin status'.classes
       /\ status'.statusTimer = status.statusTimer
       /\ status'.statusStartTime = status.statusStartTime
       /\ status'.intervals = status.intervals]_vars

\* ------------------------------------------------------------------------
\* The status panel under every caller
\* ------------------------------------------------------------------------

\* A page without an image to scan: every button of the toolbar is used,
\* and selections are made one at a time.
InitStatus == InitPage("auto", FALSE, [i \in Images |-> Icon], Images)

NextStatus ==
  \/ handleLanguageChange("jpn")
  \/ toggleSelectionMode
  \/ HideTimeout
  \/ handleScanClick
  \/ Quiet /\ processSelectedRegion(1, [width |-> 100, height |-> 100])
  \/ \E r \in SelRuns : SelCaptureReturn(r)
  \/ \E r \in SelRuns : SelCaptureFail(r)
  \/ \E r \in SelRuns :
       SelPrimaryReturn(r, Data(60, TextHan2, <<>>, <<>>))
  \/ \E r \in SelRuns : SelTranslateReturn(r, Answer("ok", TextLatin))

SpecStatus == InitStatus /\ [][NextStatus]_vars

\* The panel does not exist or carries the class it-hidden.
PanelHidden == ~status.statusPanel \/ "it-hidden" \in status.classes

\* C27: after any sequence of updateStatus, showSuccess, showError and
\* hideStatus calls an elapsed-time interval is registered exactly when
\* statusStartTime is set, at most one interval is registered, and none
\* is registered while the panel is hidden.
C27_StatusTimerInvariant ==
  /\ status.intervals \in {0, 1}
  /\ status.intervals = 1 <=> status.statusStartTime
  /\ status.statusTimer <=> status.statusStartTime
  /\ PanelHidden => status.intervals = 0

\* C27 witness: the timer runs again after a terminal status stopped it,
\* with the delayed hide of that status still pending.
C27_Witness ==
  /\ status.intervals = 1
  /\ status.statusStartTime
  /\ status.hideTimeouts > 0
  /\ ~PanelHidden

\* ------------------------------------------------------------------------
\* Mouse events
\* ------------------------------------------------------------------------

\* A page without an image to scan, selection mode off: the Select button
\* and the mouse are used in any order, and the captures of the
\* selections made succeed or fail.
InitDrag == InitPage("jpn", FALSE, [i \in Images |-> Icon], Images)

NextDrag ==
  \/ toggleSelectionMode
  \/ HideTimeout
  \/ \E onUI \in BOOLEAN : handleMouseDown(onUI)
  \/ \E size \in DragSizes : handleMouseMove(size[1], size[2])
  \/ handleMouseUp
  \/ \E r \in SelRuns : SelCaptureReturn(r)
  \/ \E r \in SelRuns : SelCaptureFail(r)
  \/ \E r \in SelRuns : SelRecognizeFail(r)

SpecDrag == InitDrag /\ [][NextDrag]_vars

\* C28: in every state reached by mousedown, mousemove, mouseup and
\* toggles of selection mode, isSelecting implies that selectionBox is not
\* null, and at most one selection-box element is attached to the page.
C28_OneSelectionBox ==
  /\ drag.isSelecting => drag.selectionBox
  /\ drag.boxes <= 1

\* Run r starts in this step.
SelectionStarts(r) == sel'[r] # sel[r] /\ sel'[r].pc = "capture"

\* C29: a selection run starts only at the mouseup of a drag that began
\* in selection mode outside the extension's UI and whose rectangle is at
\* least 20 px wide and 20 px high; a mousedown with selection mode off or
\* on a UI element and a mouseup of a smaller rectangle issue no request
\* and leave the status panel unchanged.
C29_RunsStartFromAcceptedDrags ==
  [][/\ \A r \in SelRuns :
          SelectionStarts(r) =>
            /\ drag.isSelecting
            /\ drag.inMode /\ ~drag.onUI
            /\ drag.width >= 20 /\ drag.height >= 20
            /\ sel'[r].rect = [width |-> drag.width, height |-> drag.height]
            /\ drag'.event = <<"mouseup", TRUE>>
            /\ sel'[r].calls = <<>>
     /\ (drag' # drag /\ drag'.event \in {<<"mousedown", FALSE>>,
                                           <<"mouseup", FALSE>>}) =>
          UNCHANGED <<sel, status, popups, scannerVars>>
     /\ \A onUI \in BOOLEAN :
          (handleMouseDown(onUI) /\ (~selectionMode \/ onUI)) =>
            UNCHANGED <<sel, status, popups, scannerVars>>
     /\ (handleMouseUp /\ (drag.width < 20 \/ drag.height < 20)) =>
          UNCHANGED <<sel, status, popups, scannerVars>>]_vars

\* C29 witness: the mouseup of a drag of 20 x 20 has started the only run,
\* whose capture is pending.
C29_Witness ==
  /\ drag.event = <<"mouseup", TRUE>>
  /\ sel[1].pc = "capture"
  /\ sel[1].rect = [width |-> 20, height |-> 20]
  /\ sel[2].pc = "idle"
  /\ status.statusText = "Capturing selected area..."

====
